---- MODULE Spec2Model ----
(***************************************************************************)
(* Raw-data aggregation pipeline of Multi_Agent_Financial_Analysts:        *)
(* resolver.py, sec_financials.py, price_trend.py, finnhub_news.py and     *)
(* collect_raw_data.py.                                                    *)
(*                                                                         *)
(* Python values are tagged records: None is [k |-> "none"], a float is    *)
(* an exact fraction [k |-> "float", n, d] in lowest terms with d > 0, a   *)
(* raised exception is [k |-> "raise", exc].                               *)
(***************************************************************************)
EXTENDS Integers, Sequences, FiniteSets, TLC

VARIABLES pc, arg, ret, frame, calls

vars == <<pc, arg, ret, frame, calls>>

(***************************************************************************)
(* Python values                                                           *)
(***************************************************************************)
None == [k |-> "none"]

Raise(e) == [k |-> "raise", exc |-> e]

IsRaise(x) == x.k = "raise"

Abs(x) == IF x < 0 THEN -x ELSE x

RECURSIVE GCD(_, _)
GCD(a, b) == IF b = 0 THEN a ELSE GCD(b, a % b)

\* a float, held exactly: n/d in lowest terms, d > 0
Float(n, d) ==
    LET g == GCD(Abs(n), Abs(d))
        s == IF d < 0 THEN -1 ELSE 1
    IN  [k |-> "float", n |-> (s * n) \div g, d |-> (s * d) \div g]

FloatAdd(a, b) == Float(a.n * b.d + b.n * a.d, a.d * b.d)

\* a / b, b # 0 (the callers test the denominator first)
FloatDiv(a, b) == Float(a.n * b.d, a.d * b.n)

\* bool(x) of an Optional[float]: None and 0.0 are falsy
Truthy(x) == x.k = "float" /\ x.n # 0

\* a or b
PyOr(a, b) == IF Truthy(a) THEN a ELSE b

(***************************************************************************)
(* JSON values of the filing-facts document                                *)
(***************************************************************************)
JMissing == [k |-> "missing"]

JNull == [k |-> "null"]

JInt(v) == [k |-> "int", v |-> v]

JStr(s) == [k |-> "str", s |-> s]

\* an ISO-8601 date string "yyyy-mm-dd"
JDate(y, m, d) == [k |-> "date", y |-> y, m |-> m, d |-> d]

Entry(end, fy, fp, form, val) ==
    [end |-> end, fy |-> fy, fp |-> fp, form |-> form, val |-> val]

(***************************************************************************)
(* sec_financials.py: latest_annual_value                                  *)
(***************************************************************************)
\* v.get("fp") == "FY" or v.get("form") in {"10-K", "20-F"}
IsAnnual(v) == v.fp = "FY" \/ v.form \in {"10-K", "20-F"}

\* datetime.min, 0001-01-01, as the ordinal yyyymmdd
DatetimeMin == 10101

\* parse_date: the parsed end-date, datetime.min when it does not parse;
\* datetimes compare as (year, month, day), which yyyymmdd preserves
parse_date(x) ==
    IF x.end.k = "date"
    THEN x.end.y * 10000 + x.end.m * 100 + x.end.d
    ELSE DatetimeMin

\* int(v.get("fy", 0)) raises on null and on a non-numeric string
FyRaises(v) == v.fy.k \in {"null", "str"}

FyInt(v) == IF v.fy.k = "int" THEN v.fy.v ELSE 0

\* faulty variant: the fiscal year is left out of the sort key
KeyLess_date_only(a, b) == parse_date(a) < parse_date(b)

\* the sort key (parse_date(v), int(v.get("fy", 0))), compared as a tuple
KeyLess(a, b) ==
    \/ parse_date(a) < parse_date(b)
    \/ parse_date(a) = parse_date(b) /\ FyInt(a) < FyInt(b)

\* x placed into a descending list behind every entry whose key is not
\* smaller: list.sort(reverse=True) is stable
RECURSIVE InsertDesc(_, _)
InsertDesc(sorted, x) ==
    IF sorted = <<>> THEN <<x>>
    ELSE IF KeyLess(Head(sorted), x) THEN <<x>> \o sorted
    ELSE <<Head(sorted)>> \o InsertDesc(Tail(sorted), x)

RECURSIVE SortDesc(_)
SortDesc(s) ==
    IF s = <<>> THEN <<>>
    ELSE InsertDesc(SortDesc(SubSeq(s, 1, Len(s) - 1)), s[Len(s)])

latest_annual_value(values) ==
    LET fy_only == SelectSeq(values, IsAnnual)
        annuals == IF fy_only = <<>> THEN values ELSE fy_only
    IN  IF \E i \in 1..Len(annuals) : FyRaises(annuals[i])
        THEN Raise("TypeError")
        ELSE IF annuals = <<>> THEN None
        ELSE [k |-> "entry", e |-> SortDesc(annuals)[1]]

(***************************************************************************)
(* sec_financials.py: get_us_gaap                                          *)
(***************************************************************************)
UnitPriority == <<"USD", "USD/shares", "pure">>

HasUnit(units, key) == \E i \in 1..Len(units) : units[i].key = key

UnitValues(units, key) ==
    units[CHOOSE i \in 1..Len(units) : units[i].key = key].values

\* the first of USD, USD/shares, pure that the units hold; None otherwise
PreferredValues(units) ==
    IF \E j \in 1..Len(UnitPriority) : HasUnit(units, UnitPriority[j])
    THEN LET j == CHOOSE j \in 1..Len(UnitPriority) :
                     /\ HasUnit(units, UnitPriority[j])
                     /\ \A h \in 1..(j - 1) : ~HasUnit(units, UnitPriority[h])
         IN  [k |-> "list", values |-> UnitValues(units, UnitPriority[j])]
    ELSE None

\* if not usd_values and units: usd_values = list(units.values())[0]
UsdValues(units) ==
    LET pref == PreferredValues(units)
        empty == pref.k = "none" \/ pref.values = <<>>
    IN  IF empty /\ units # <<>>
        THEN [k |-> "list", values |-> units[1].values]
        ELSE pref

\* float(latest.get("val")): None for a val that float() rejects
FloatOfVal(val) == IF val.k = "int" THEN Float(val.v, 1) ELSE None

\* facts["facts"]["us-gaap"][tag] exists
HasTag(facts, tag) == facts.k = "facts" /\ tag \in DOMAIN facts.gaap

get_us_gaap(facts, tag) ==
    IF ~HasTag(facts, tag) THEN None
    ELSE LET usd_values == UsdValues(facts.gaap[tag].units)
         IN  IF usd_values.k = "none" THEN None
             ELSE LET latest == latest_annual_value(usd_values.values)
                  IN  IF latest.k = "entry" THEN FloatOfVal(latest.e.val)
                      ELSE None

(***************************************************************************)
(* sec_financials.py: fetch_json, pull_sec_financials                      *)
(***************************************************************************)
\* What requests.get(...) and r.json() do: the connection fails, the status
\* is not 2xx, the body is not JSON, or the body parses.
FetchFailures ==
    {[k |-> "network_error"], [k |-> "http_error"], [k |-> "bad_json"]}

Ok(body) == [k |-> "ok", body |-> body]

\* the parsed body, None on any failure
fetch_json(resp) == IF resp.k = "ok" THEN resp.body ELSE None

\* not data: None and the empty containers
Falsy(data) == data.k \in {"none", "empty"}

g(data, tag) == get_us_gaap(data, tag)

revenue(data) ==
    PyOr(PyOr(g(data, "RevenueFromContractWithCustomerExcludingAssessedTax"),
              g(data, "SalesRevenueNet")),
         g(data, "Revenues"))

gross_profit(data) == g(data, "GrossProfit")

operating_income(data) ==
    PyOr(g(data, "OperatingIncomeLoss"), g(data, "OperatingIncome"))

net_income(data) == PyOr(g(data, "NetIncomeLoss"), g(data, "ProfitLoss"))

current_assets(data) == g(data, "AssetsCurrent")

current_liabilities(data) == g(data, "LiabilitiesCurrent")

equity(data) ==
    PyOr(g(data, "StockholdersEquityIncludingPortionAttributableToNoncontrollingInterest"),
         g(data, "StockholdersEquity"))

cash(data) ==
    PyOr(g(data, "CashAndCashEquivalentsAtCarryingValue"),
         g(data, "CashCashEquivalentsAndShortTermInvestments"))

lt_debt(data) == PyOr(g(data, "LongTermDebtNoncurrent"), g(data, "LongTermDebt"))

current_portion_lt_debt(data) == g(data, "LongTermDebtCurrent")

st_borrow(data) == g(data, "ShortTermBorrowings")

commercial_paper(data) == g(data, "CommercialPaper")

\* sum([v for v in vs if v is not None]): 0 for the empty list
RECURSIVE SumPresent(_)
SumPresent(vs) ==
    IF vs = <<>> THEN Float(0, 1)
    ELSE LET rest == SumPresent(Tail(vs))
         IN  IF Head(vs).k = "none" THEN rest ELSE FloatAdd(Head(vs), rest)

\* faulty variant: the commercial paper is left out of the sum
total_debt_without_paper(data) ==
    SumPresent(<<lt_debt(data), current_portion_lt_debt(data), st_borrow(data)>>)

total_debt(data) ==
    SumPresent(<<lt_debt(data), current_portion_lt_debt(data),
                 st_borrow(data), commercial_paper(data)>>)

\* faulty variant: the numerator is tested for truth, as current_ratio tests it
gross_margin_truthy_numerator(data) ==
    IF Truthy(revenue(data)) /\ Truthy(gross_profit(data))
    THEN FloatDiv(gross_profit(data), revenue(data)) ELSE None

gross_margin(data) ==
    IF Truthy(revenue(data)) /\ gross_profit(data).k # "none"
    THEN FloatDiv(gross_profit(data), revenue(data)) ELSE None

operating_margin(data) ==
    IF Truthy(revenue(data)) /\ operating_income(data).k # "none"
    THEN FloatDiv(operating_income(data), revenue(data)) ELSE None

current_ratio(data) ==
    IF Truthy(current_assets(data)) /\ Truthy(current_liabilities(data))
    THEN FloatDiv(current_assets(data), current_liabilities(data)) ELSE None

debt_to_equity(data) ==
    IF Truthy(equity(data)) /\ total_debt(data).k # "none"
    THEN FloatDiv(total_debt(data), equity(data)) ELSE None

\* "total_debt": total_debt if total_debt != 0 else None
total_debt_field(data) ==
    IF total_debt(data).n # 0 THEN total_debt(data) ELSE None

EmptyDict == [k |-> "empty"]

pull_sec_financials(resp) ==
    LET data == fetch_json(resp)
    IN  IF Falsy(data) THEN EmptyDict
        ELSE [k |-> "dict",
              revenue |-> revenue(data),
              gross_profit |-> gross_profit(data),
              operating_income |-> operating_income(data),
              net_income |-> net_income(data),
              cash |-> cash(data),
              current_assets |-> current_assets(data),
              current_liabilities |-> current_liabilities(data),
              equity |-> equity(data),
              total_debt |-> total_debt_field(data),
              gross_margin |-> gross_margin(data),
              operating_margin |-> operating_margin(data),
              current_ratio |-> current_ratio(data),
              debt_to_equity |-> debt_to_equity(data)]

(***************************************************************************)
(* Filing-facts documents the extractor is run on                          *)
(***************************************************************************)
Tags ==
    {"RevenueFromContractWithCustomerExcludingAssessedTax", "SalesRevenueNet",
     "Revenues", "GrossProfit", "OperatingIncomeLoss", "OperatingIncome",
     "NetIncomeLoss", "ProfitLoss", "AssetsCurrent", "LiabilitiesCurrent",
     "StockholdersEquityIncludingPortionAttributableToNoncontrollingInterest",
     "StockholdersEquity", "CashAndCashEquivalentsAtCarryingValue",
     "CashCashEquivalentsAndShortTermInvestments", "LongTermDebtNoncurrent",
     "LongTermDebt", "LongTermDebtCurrent", "ShortTermBorrowings",
     "CommercialPaper"}

\* at most MaxTags tags are filed in one document
MaxTags == 3

\* the latest annual figure of a filed tag
SecVals == {-1, 0, 1}

Unit(key, values) == [key |-> key, values |-> values]

FY(year, val) ==
    Entry(JDate(year, 12, 31), JInt(year), "FY", "10-K", JInt(val))

Quarter(year, month, val) ==
    Entry(JDate(year, month, 30), JInt(year), "Q2", "10-Q", JInt(val))

\* the ways a tag whose latest annual figure is v is filed: under USD behind
\* another unit group, between an older and a still older annual figure and
\* beside a later quarterly one; or under a unit group of its own only
TagLayouts == 1..2

TagData(v, layout) ==
    CASE layout = 1 ->
           [units |-> <<Unit("EUR", <<FY(2024, v + 1)>>),
                        Unit("USD", <<FY(2023, v + 1), FY(2024, v),
                                      Quarter(2025, 6, v + 1),
                                      FY(2022, v - 1)>>)>>]
      [] layout = 2 ->
           [units |-> <<Unit("shares", <<FY(2024, v)>>)>>]

FactsDoc(gaap) == [k |-> "facts", gaap |-> gaap]

SmallSubsets(S, n) == {T \in SUBSET S : Cardinality(T) <= n}

\* a body that parses but holds no facts: {} or [], and an error document
OtherBodies == {[k |-> "empty"], [k |-> "other"]}

(***************************************************************************)
(* Specification SpecSec: one call of pull_sec_financials                  *)
(***************************************************************************)
NoFrame == [k |-> "none"]

InitIdle ==
    /\ pc = "idle"
    /\ arg = None
    /\ ret = None
    /\ frame = NoFrame
    /\ calls = <<>>

SecReturns(resp) ==
    /\ arg' = resp
    /\ ret' = pull_sec_financials(resp)
    /\ pc' = "pull_sec_financials"
    /\ UNCHANGED <<frame, calls>>

\* the facts source fails or answers without facts
CallSecNoFacts ==
    /\ pc = "idle"
    /\ \E resp \in FetchFailures \cup {Ok(b) : b \in OtherBodies} :
          SecReturns(resp)

\* the facts source answers with a facts document
CallSecFacts ==
    /\ pc = "idle"
    /\ \E T \in SmallSubsets(Tags, MaxTags) :
          \E f \in [T -> SecVals] :
             \E layout \in TagLayouts :
                SecReturns(Ok(FactsDoc([t \in T |-> TagData(f[t], layout)])))

NextSec == CallSecNoFacts \/ CallSecFacts

SpecSec == InitIdle /\ [][NextSec]_vars

SecReturned == pc = "pull_sec_financials" /\ ret.k = "dict"

Present(x) == x.k # "none"

\* r = n / d over exact fractions
IsQuotient(r, n, d) == r.n * d.n * n.d = n.n * r.d * d.d

PresentNonZero(x) == Present(x) /\ x.n # 0

(***************************************************************************)
(* Claims about pull_sec_financials, checked under SpecSec                 *)
(***************************************************************************)
\* C4: in every non-empty record pull_sec_financials returns, gross_margin
\* is present exactly when revenue and gross_profit are present and revenue
\* is not 0, and then equals gross_profit / revenue; operating_margin
\* likewise with operating_income as the numerator.
C4_MarginIffOperands ==
    SecReturned =>
        /\ Present(ret.gross_margin) <=>
              (PresentNonZero(ret.revenue) /\ Present(ret.gross_profit))
        /\ Present(ret.gross_margin) =>
              IsQuotient(ret.gross_margin, ret.gross_profit, ret.revenue)
        /\ Present(ret.operating_margin) <=>
              (PresentNonZero(ret.revenue) /\ Present(ret.operating_income))
        /\ Present(ret.operating_margin) =>
              IsQuotient(ret.operating_margin, ret.operating_income, ret.revenue)

\* a record with both margins computed, and neither of them 0 or 1
C4_Witness ==
    /\ SecReturned
    /\ PresentNonZero(ret.gross_margin)
    /\ PresentNonZero(ret.operating_margin)
    /\ ret.gross_margin # ret.operating_margin

\* C5: in every non-empty record, each of the four ratio fields is present
\* only if its numerator field and denominator field are present in the same
\* record and the denominator is not 0; debt_to_equity is present only if
\* total_debt is present.
C5_RatioOnlyIfOperands ==
    SecReturned =>
        /\ Present(ret.gross_margin) =>
              (Present(ret.gross_profit) /\ PresentNonZero(ret.revenue))
        /\ Present(ret.operating_margin) =>
              (Present(ret.operating_income) /\ PresentNonZero(ret.revenue))
        /\ Present(ret.current_ratio) =>
              (Present(ret.current_assets) /\ PresentNonZero(ret.current_liabilities))
        /\ Present(ret.debt_to_equity) =>
              (Present(ret.total_debt) /\ PresentNonZero(ret.equity))

\* C6: in every non-empty record, current_ratio is present whenever
\* AssetsCurrent is present in the facts (0 included) and current_liabilities
\* is present and not 0.
C6_CurrentRatioWhenOperands ==
    SecReturned =>
        ((Present(get_us_gaap(arg.body, "AssetsCurrent"))
            /\ PresentNonZero(ret.current_liabilities))
         => Present(ret.current_ratio))

\* the extraction of the first candidate tag that is not absent
RECURSIVE FirstPresent(_, _)
FirstPresent(data, tags) ==
    IF tags = <<>> THEN None
    ELSE IF Present(get_us_gaap(data, Head(tags)))
         THEN get_us_gaap(data, Head(tags))
         ELSE FirstPresent(data, Tail(tags))

\* C8: each field with an ordered list of candidate tags holds the value of
\* the first candidate whose extraction is not absent (0 included); a later
\* candidate is used only when every earlier one is absent.
C8_FirstNonAbsentWins ==
    SecReturned =>
        /\ ret.revenue = FirstPresent(arg.body,
              <<"RevenueFromContractWithCustomerExcludingAssessedTax",
                "SalesRevenueNet", "Revenues">>)
        /\ ret.operating_income = FirstPresent(arg.body,
              <<"OperatingIncomeLoss", "OperatingIncome">>)
        /\ ret.net_income = FirstPresent(arg.body,
              <<"NetIncomeLoss", "ProfitLoss">>)
        /\ ret.equity = FirstPresent(arg.body,
              <<"StockholdersEquityIncludingPortionAttributableToNoncontrollingInterest",
                "StockholdersEquity">>)
        /\ ret.cash = FirstPresent(arg.body,
              <<"CashAndCashEquivalentsAtCarryingValue",
                "CashCashEquivalentsAndShortTermInvestments">>)
        /\ lt_debt(arg.body) = FirstPresent(arg.body,
              <<"LongTermDebtNoncurrent", "LongTermDebt">>)

\* the four debt components as the extractor holds them
DebtComponents(data) ==
    {lt_debt(data), current_portion_lt_debt(data), st_borrow(data),
     commercial_paper(data)}

Amount(x) == IF Present(x) THEN x.n ELSE 0

\* the sum of the components that are present (extracted figures are whole)
DebtSum(data) ==
    Float(Amount(lt_debt(data)) + Amount(current_portion_lt_debt(data))
            + Amount(st_borrow(data)) + Amount(commercial_paper(data)), 1)

\* C9 as stated: total_debt is the sum of the debt components that are
\* present whenever at least one is present, and absent when all four are
\* absent.
C9_TotalDebtSumOfPresent ==
    SecReturned =>
        IF \E c \in DebtComponents(arg.body) : Present(c)
        THEN ret.total_debt = DebtSum(arg.body)
        ELSE ret.total_debt = None

\* C9 as amended: total_debt is the sum of the debt components that are
\* present when that sum is not 0, and absent when the sum is 0, which is
\* the case when all four are absent.
C9_TotalDebtNonZeroSum ==
    SecReturned =>
        IF DebtSum(arg.body).n # 0
        THEN ret.total_debt = DebtSum(arg.body)
        ELSE ret.total_debt = None

\* two components and the long-term debt are summed to a total
C9_Witness ==
    /\ SecReturned
    /\ Present(commercial_paper(arg.body))
    /\ Present(st_borrow(arg.body))
    /\ PresentNonZero(lt_debt(arg.body))
    /\ Present(ret.total_debt)
    /\ ret.total_debt # lt_debt(arg.body)

(***************************************************************************)
(* Specification SpecLatest: one call of latest_annual_value               *)
(***************************************************************************)
\* the longest value list of a unit group
MaxEntries == 3

\* annual and quarterly entries of two period ends, each reported in the
\* filings of two fiscal years with one of two figures
RegularEntries ==
    {Entry(JDate(y, 12, 31), JInt(fy), kind[1], kind[2], JInt(v)) :
        y \in {2023, 2024}, fy \in {2024, 2025},
        kind \in {<<"FY", "10-K">>, <<"Q2", "10-Q">>}, v \in {1, 2}}

\* entries whose end-date does not parse, whose fy is absent, or whose fy
\* is null
OddEntries ==
    {Entry(JStr("n/a"), JInt(2025), "FY", "10-K", JInt(1)),
     Entry(JDate(2024, 12, 31), JMissing, "FY", "10-K", JInt(2)),
     Entry(JDate(2024, 12, 31), JNull, "FY", "10-K", JInt(1))}

EntryPool == RegularEntries \cup OddEntries

CallLatest ==
    /\ pc = "idle"
    /\ \E n \in 0..MaxEntries :
          \E values \in [1..n -> EntryPool] :
             /\ arg' = values
             /\ ret' = latest_annual_value(values)
    /\ pc' = "latest_annual_value"
    /\ UNCHANGED <<frame, calls>>

SpecLatest == InitIdle /\ [][CallLatest]_vars

Perms(s) ==
    {[i \in 1..Len(s) |-> s[q[i]]] :
        q \in {r \in [1..Len(s) -> 1..Len(s)] :
                  \A i, j \in 1..Len(s) : r[i] = r[j] => i = j}}

\* a call on annual entries with parseable end-dates that selected an entry
LatestSelected ==
    /\ pc = "latest_annual_value"
    /\ ret.k = "entry"
    /\ \A i \in 1..Len(arg) : IsAnnual(arg[i]) /\ arg[i].end.k = "date"

\* a's end-date is before b's
EndsBefore(a, b) ==
    \/ a.end.y < b.end.y
    \/ a.end.y = b.end.y /\ a.end.m < b.end.m
    \/ a.end.y = b.end.y /\ a.end.m = b.end.m /\ a.end.d < b.end.d

FiscalYear(a) == IF a.fy.k = "int" THEN a.fy.v ELSE 0

\* a is older than b: an earlier end-date, or the same and an earlier fy
Older(a, b) ==
    \/ EndsBefore(a, b)
    \/ ~EndsBefore(b, a) /\ FiscalYear(a) < FiscalYear(b)

\* the positions of the entries that no entry is newer than
NewestAt(values) ==
    {i \in 1..Len(values) : \A j \in 1..Len(values) : ~Older(values[i], values[j])}

\* C7 as stated: on annual entries with parseable end-dates the selected
\* entry has the latest end-date, and every permutation of the list selects
\* an entry with the same value.
C7_OrderIndependent ==
    LatestSelected =>
        /\ \A i \in 1..Len(arg) : ~EndsBefore(ret.e, arg[i])
        /\ \A p \in Perms(arg) : latest_annual_value(p).e.val = ret.e.val

\* C7 as amended: the selected entry is the first, in input order, of the
\* entries with the latest end-date and among those the greatest fiscal
\* year; every permutation selects an entry of that end-date and fiscal
\* year, and one of the same value whenever those entries agree on it.
C7_OrderIndependentUpToTies ==
    LatestSelected =>
        /\ \A i \in 1..Len(arg) : ~EndsBefore(ret.e, arg[i])
        /\ ret.e = arg[CHOOSE i \in NewestAt(arg) : \A j \in NewestAt(arg) : i <= j]
        /\ \A p \in Perms(arg) :
              LET sel == latest_annual_value(p).e
              IN  /\ ~Older(sel, ret.e) /\ ~Older(ret.e, sel)
                  /\ (\A i, j \in NewestAt(arg) : arg[i].val = arg[j].val)
                        => sel.val = ret.e.val

\* the entries of 2023-12-31 and 2024-12-31 given oldest last and oldest
\* first: the selected one is not the head of the list
C7_Witness ==
    /\ LatestSelected
    /\ Len(arg) >= 2
    /\ \E i, j \in 1..Len(arg) : EndsBefore(arg[i], arg[j])
    /\ ret.e # arg[1]
    /\ ret.e.val # arg[1].val

(***************************************************************************)
(* price_trend.py: pull_price_trend_yf                                     *)
(***************************************************************************)
NaN == [k |-> "nan"]

\* hist["Close"].dropna()
dropna(rows) == SelectSeq(rows, LAMBDA r : r.close.k # "nan")

\* series.tail(n)
tail(series, n) ==
    IF Len(series) <= n THEN series
    ELSE SubSeq(series, Len(series) - n + 1, Len(series))

RECURSIVE SumCloses(_)
SumCloses(series) ==
    IF series = <<>> THEN Float(0, 1)
    ELSE FloatAdd(Head(series).close, SumCloses(Tail(series)))

\* series.mean() of a non-empty series
mean(series) ==
    LET total == SumCloses(series) IN Float(total.n, total.d * Len(series))

\* the windows of the two moving averages, and the length of the sample
SmaShort == 20

SmaLong == 50

SampleLen == 5

\* faulty variant: the window must be exceeded, not reached
sma_window_exceeded(series, window) ==
    IF Len(series) > window THEN mean(tail(series, window)) ELSE None

\* float(closes_series.tail(w).mean()) if len(closes_series) >= w else None
sma(series, window) ==
    IF Len(series) >= window THEN mean(tail(series, window)) ELSE None

\* the positions i of vals with vals[i-1] and vals[i] both non-zero
LogretAt(vals) == {i \in 2..Len(vals) : Truthy(vals[i-1].close) /\ Truthy(vals[i].close)}

\* math.log(x) raises ValueError unless x > 0
LogRaises(vals) ==
    \E i \in LogretAt(vals) : FloatDiv(vals[i].close, vals[i-1].close).n <= 0

\* statistics.pstdev(logrets) * math.sqrt(252), held as the ratios
\* vals[i] / vals[i-1] whose logarithms it is taken over, by position; None
\* when there are none
annualized_vol(vals) ==
    IF LogretAt(vals) = {} THEN None
    ELSE [k |-> "pstdev_sqrt252",
          ratios |-> [i \in LogretAt(vals) |->
                        FloatDiv(vals[i].close, vals[i-1].close)]]

\* (latest_close / oldest_close - 1.0) if oldest_close else None
pct_change(latest_close, oldest_close) ==
    IF Truthy(oldest_close)
    THEN FloatAdd(FloatDiv(latest_close, oldest_close), Float(-1, 1))
    ELSE None

\* (idx.strftime("%Y-%m-%d"), float(val)): a tuple of the date and the close
ClosePair(r) == [k |-> "tuple", date |-> r.date, close |-> r.close]

\* faulty variant: the error record still carries an (empty) sample
ErrorDict_with_sample(msg) == [k |-> "error", error |-> msg, sample |-> <<>>]

ErrorDict(msg) == [k |-> "error", error |-> msg]

\* hist: the fetch raised, or a table of rows (date, Close)
pull_price_trend_yf(hist) ==
    IF hist.k = "raise" THEN ErrorDict(hist.exc)
    ELSE IF hist.rows = <<>> THEN ErrorDict("No price data returned")
    ELSE LET closes_series == dropna(hist.rows)
             n == Len(closes_series)
         IN  IF closes_series = <<>> THEN ErrorDict("list index out of range")
             ELSE IF LogRaises(closes_series) THEN ErrorDict("math domain error")
             ELSE [k |-> "dict",
                   latest_close |-> closes_series[n].close,
                   oldest_close |-> closes_series[1].close,
                   pct_change |-> pct_change(closes_series[n].close,
                                             closes_series[1].close),
                   sma20 |-> sma(closes_series, SmaShort),
                   sma50 |-> sma(closes_series, SmaLong),
                   annualized_vol |-> annualized_vol(closes_series),
                   sample |-> [i \in 1..Len(tail(closes_series, SampleLen)) |->
                                 ClosePair(tail(closes_series, SampleLen)[i])]]

(***************************************************************************)
(* Specification SpecPrice: one call of pull_price_trend_yf                *)
(***************************************************************************)
\* the default of the parameter days: period="60d" is at most 60 rows
days == 60

\* at most MaxGaps rows of a history have a missing close
MaxGaps == 1

\* the closes of a history of n rows: rising; with zero closes; flat with a
\* last close below zero
CloseShapes == 1..3

CloseAt(i, n, shape) ==
    CASE shape = 1 -> 100 + i
      [] shape = 2 -> (i % 3) * 5
      [] shape = 3 -> IF i = n THEN -1 ELSE 7

\* the sets of at most m of the rows 1..n
RECURSIVE GapSets(_, _)
GapSets(n, m) ==
    IF m = 0 THEN {{}}
    ELSE GapSets(n, m - 1)
            \cup {gs \cup {i} : gs \in GapSets(n, m - 1), i \in 1..n}

History(n, gaps, shape) ==
    [k |-> "frame",
     rows |-> [i \in 1..n |->
                 [date |-> i,
                  close |-> IF i \in gaps THEN NaN
                            ELSE Float(CloseAt(i, n, shape), 1)]]]

PriceReturns(hist) ==
    /\ arg' = hist
    /\ ret' = pull_price_trend_yf(hist)
    /\ pc' = "pull_price_trend_yf"
    /\ UNCHANGED <<frame, calls>>

\* yf.Ticker(symbol).history(...) raises
CallPriceFetchRaises ==
    /\ pc = "idle"
    /\ PriceReturns(Raise("ConnectionError"))

\* the price source answers with a table of 0..days rows
CallPrice ==
    /\ pc = "idle"
    /\ \E n \in 0..days :
          \E gaps \in GapSets(n, MaxGaps) :
             \E shape \in CloseShapes :
                PriceReturns(History(n, gaps, shape))

NextPrice == CallPriceFetchRaises \/ CallPrice

SpecPrice == InitIdle /\ [][NextPrice]_vars

(***************************************************************************)
(* Claims about pull_price_trend_yf, checked under SpecPrice               *)
(***************************************************************************)
\* a call on a non-empty price history
PriceAnalysed ==
    pc = "pull_price_trend_yf" /\ arg.k = "frame" /\ arg.rows # <<>>

\* the rows of the history whose close is not missing
ObservedAt(rows) == {i \in 1..Len(rows) : rows[i].close.k # "nan"}

\* the last w of them
LastObserved(rows, w) ==
    {i \in ObservedAt(rows) : Cardinality({j \in ObservedAt(rows) : j >= i}) <= w}

RECURSIVE CloseTotal(_, _)
CloseTotal(rows, at) ==
    IF at = {} THEN 0
    ELSE LET i == CHOOSE i \in at : TRUE
         IN  rows[i].close.n + CloseTotal(rows, at \ {i})

\* field w of the result is present exactly when the history has at least
\* w observed closes, and is then the mean of the last w of them
SmaAsClaimed(field, w) ==
    LET has == ret.k = "dict" /\ Present(ret[field])
    IN  /\ has <=> Cardinality(ObservedAt(arg.rows)) >= w
        /\ has => ret[field].n * w
                     = ret[field].d * CloseTotal(arg.rows, LastObserved(arg.rows, w))

\* C10 as stated: for every non-empty price history, sma20 is in the result
\* exactly when the close series has at least 20 non-missing observations,
\* sma50 exactly when it has at least 50, each the mean of the trailing 20
\* (50) non-missing closes.
C10_SmaIffEnoughCloses ==
    PriceAnalysed => (SmaAsClaimed("sma20", 20) /\ SmaAsClaimed("sma50", 50))

\* C10 as amended: the same, for every non-empty price history on which the
\* analyzer returns the metrics record; the error record it returns when a
\* step of the computation fails holds neither average.
C10_SmaIffEnoughClosesNoError ==
    PriceAnalysed =>
        IF ret.k = "dict"
        THEN SmaAsClaimed("sma20", 20) /\ SmaAsClaimed("sma50", 50)
        ELSE DOMAIN ret = {"k", "error"}

\* 50 rows of which one close is missing: sma20 is computed, sma50 is not
C10_Witness ==
    /\ PriceAnalysed
    /\ ret.k = "dict"
    /\ Len(arg.rows) = 50
    /\ Cardinality(ObservedAt(arg.rows)) = 49
    /\ PresentNonZero(ret.sma20)
    /\ ~Present(ret.sma50)

\* the next row after i whose close is not missing, 0 when there is none
NextObserved(rows, i) ==
    IF \E j \in (i + 1)..Len(rows) : rows[j].close.k # "nan"
    THEN CHOOSE j \in (i + 1)..Len(rows) :
            /\ rows[j].close.k # "nan"
            /\ \A h \in (i + 1)..(j - 1) : rows[h].close.k = "nan"
    ELSE 0

\* two consecutive observed closes, neither 0, of opposite sign: the
\* logarithm of their ratio is undefined
SignFlip(rows) ==
    \E i \in ObservedAt(rows) :
        LET j == NextObserved(rows, i)
        IN  j # 0 /\ rows[i].close.n * rows[j].close.n < 0

\* the fetch raised, the history is empty, or a step of the computation
\* fails: no observed close to index, or a log-return that is undefined
PriceFailed ==
    \/ arg.k = "raise"
    \/ arg.rows = <<>>
    \/ ObservedAt(arg.rows) = {}
    \/ SignFlip(arg.rows)

\* C11: on an empty price history and on any failure of the fetch or the
\* computation (a non-empty history whose closes are all missing included)
\* pull_price_trend_yf returns a record whose only field is error: it never
\* raises, and the record holds none of latest_close, oldest_close,
\* pct_change, sma20, sma50, annualized_vol, sample.
C11_FailureIsErrorOnly ==
    pc = "pull_price_trend_yf" =>
        /\ ~IsRaise(ret)
        /\ PriceFailed =>
              (ret.k = "error" /\ DOMAIN ret = {"k", "error"})
        /\ ~PriceFailed => ret.k = "dict"

\* a non-empty history whose closes are all missing, answered with the
\* error record
C11_Witness ==
    /\ PriceAnalysed
    /\ ObservedAt(arg.rows) = {}
    /\ ret.k = "error"

(***************************************************************************)
(* finnhub_news.py: pull_finnhub_news                                      *)
(*                                                                         *)
(* The parsed body of the news source is a list of elements                *)
(* [k |-> "list", items], the empty dict, a dict with a truthy "error", a  *)
(* non-empty dict without one, or a scalar.  A list element is a dict      *)
(* [k |-> "item", id, datetime] or not a dict at all.                      *)
(***************************************************************************)
NewsItem(id, datetime) == [k |-> "item", id |-> id, datetime |-> datetime]

\* the kind of x.get("datetime", 0): an absent key gives the int 0
TsKind(x) == IF x.datetime.k = "missing" THEN "int" ELSE x.datetime.k

TsInt(x) == IF x.datetime.k = "int" THEN x.datetime.v ELSE 0

\* sorted(data, key=...) raises: an element without .get, or two keys that
\* < does not compare (only int with int, str with str)
SortRaises(items) ==
    \/ \E i \in 1..Len(items) : items[i].k # "item"
    \/ /\ Len(items) >= 2
       /\ ~(\/ \A i \in 1..Len(items) : TsKind(items[i]) = "int"
            \/ \A i \in 1..Len(items) : TsKind(items[i]) = "str")

\* faulty variant: the sort without reverse=True
TsLess_ascending(a, b) ==
    TsKind(a) = "int" /\ TsKind(b) = "int" /\ TsInt(a) > TsInt(b)

\* the keys compare a < b; the string timestamps of the model are all the
\* same string, so two str keys are never less
TsLess(a, b) == TsKind(a) = "int" /\ TsKind(b) = "int" /\ TsInt(a) < TsInt(b)

\* sorted(..., reverse=True) is stable: x goes behind the items that are
\* not smaller
RECURSIVE InsertNews(_, _)
InsertNews(sorted, x) ==
    IF sorted = <<>> THEN <<x>>
    ELSE IF TsLess(Head(sorted), x) THEN <<x>> \o sorted
    ELSE <<Head(sorted)>> \o InsertNews(Tail(sorted), x)

RECURSIVE SortNews(_)
SortNews(items) ==
    IF items = <<>> THEN <<>>
    ELSE InsertNews(SortNews(SubSeq(items, 1, Len(items) - 1)), items[Len(items)])

\* the sample keeps the 20 most recent items
NewsTop == 20

\* datetime.fromtimestamp(ts, tz=utc).strftime("%Y-%m-%d %H:%M:%S") of a
\* timestamp within January 1970
SecondsPerDay == 86400

IsoOf(ts) ==
    [y |-> 1970, mo |-> 1, d |-> 1 + ts \div SecondsPerDay,
     h |-> (ts % SecondsPerDay) \div 3600,
     mi |-> (ts % 3600) \div 60,
     s |-> ts % 60]

\* it["datetime_iso"] = ...; a timestamp fromtimestamp rejects leaves the
\* item as it is
Enrich(it) ==
    IF TsKind(it) = "int"
    THEN [k |-> "item", id |-> it.id, datetime |-> it.datetime,
          datetime_iso |-> IsoOf(TsInt(it))]
    ELSE it

\* api_key: FINNHUB_API_KEY; resp: what the news source answers
pull_finnhub_news(api_key, resp) ==
    LET data == fetch_json(resp)
        falsy == data.k \in {"none", "empty_dict"} \/ (data.k = "list" /\ data.items = <<>>)
    IN  IF api_key = "" THEN ErrorDict("Missing FINNHUB_API_KEY")
        ELSE IF falsy \/ data.k = "error_dict"
        THEN IF data.k = "error_dict" THEN ErrorDict(data.error)
             ELSE IF data.k = "empty_dict" THEN ErrorDict("None") \* {}.get("error")
             ELSE ErrorDict("Failed to get news")
        ELSE IF data.k = "dict_other" THEN Raise("AttributeError")
        ELSE IF data.k # "list" THEN Raise("TypeError")
        ELSE IF \E i \in 1..Len(data.items) : data.items[i].k # "item"
        THEN Raise("AttributeError")
        ELSE IF SortRaises(data.items) THEN Raise("TypeError")
        ELSE LET top == SubSeq(SortNews(data.items), 1,
                          IF Len(data.items) < NewsTop THEN Len(data.items)
                               ELSE NewsTop)
             IN  [k |-> "dict", count |-> Len(data.items),
                  sample |-> [i \in 1..Len(top) |-> Enrich(top[i])]]

(***************************************************************************)
(* Specification SpecNews: one call of pull_finnhub_news                   *)
(***************************************************************************)
\* the news source answers with at most MaxNews items
MaxNews == 25

\* the timestamps of a list of n items are the multiples i * step of a
\* stride, taken modulo n + 1: step 1 is ascending, step n descending, the
\* others shuffle and may repeat a timestamp
NewsSteps(n) == {1, 2, 5, n}

NewsStrides == {1, 4000}

\* what an item carries in place of a numeric timestamp
OddTimestamps == {JMissing, JNull, JStr("n/a")}

\* n items; the item at position p (none when p = 0) carries odd
NewsList(n, step, stride, p, odd) ==
    [k |-> "list",
     items |-> [i \in 1..n |->
                  NewsItem(i, IF i = p THEN odd
                              ELSE JInt(((i * step) % (n + 1)) * stride))]]

\* bodies that are not a list of dicts
NewsOtherBodies ==
    {[k |-> "empty_dict"], [k |-> "error_dict", error |-> "limit reached"],
     [k |-> "dict_other"], [k |-> "int"],
     [k |-> "list", items |-> <<>>],
     [k |-> "list", items |-> <<[k |-> "int"], NewsItem(2, JInt(7))>>]}

NewsReturns(api_key, resp) ==
    /\ arg' = [api_key |-> api_key, resp |-> resp]
    /\ ret' = pull_finnhub_news(api_key, resp)
    /\ pc' = "pull_finnhub_news"
    /\ UNCHANGED <<frame, calls>>

\* FINNHUB_API_KEY is not set
CallNewsNoKey ==
    /\ pc = "idle"
    /\ \E resp \in FetchFailures \cup {Ok(NewsList(2, 1, 1, 0, JNull))} :
          NewsReturns("", resp)

\* the fetch fails, or the body is not a list of dicts
CallNewsNoList ==
    /\ pc = "idle"
    /\ \E resp \in FetchFailures \cup {Ok(b) : b \in NewsOtherBodies} :
          NewsReturns("token", resp)

\* the news source answers with a list of 1..MaxNews items
CallNewsList ==
    /\ pc = "idle"
    /\ \E n \in 1..MaxNews :
          \E step \in NewsSteps(n) :
             \E stride \in NewsStrides :
                \E p \in 0..n :
                   \E odd \in OddTimestamps :
                      NewsReturns("token", Ok(NewsList(n, step, stride, p, odd)))

NextNews == CallNewsNoKey \/ CallNewsNoList \/ CallNewsList

SpecNews == InitIdle /\ [][NextNews]_vars

(***************************************************************************)
(* Claims about pull_finnhub_news, checked under SpecNews                  *)
(***************************************************************************)
\* a call, with the key set, that the source answers with a non-empty list
\* of dicts
NewsListed ==
    /\ pc = "pull_finnhub_news"
    /\ arg.api_key # ""
    /\ arg.resp.k = "ok"
    /\ arg.resp.body.k = "list"
    /\ arg.resp.body.items # <<>>
    /\ \A i \in 1..Len(arg.resp.body.items) : arg.resp.body.items[i].k = "item"

NewsSource == arg.resp.body.items

NumericTs(x) == x.datetime.k = "int"

DistinctNumeric(items) ==
    /\ \A i \in 1..Len(items) : NumericTs(items[i])
    /\ \A i, j \in 1..Len(items) :
          i # j => items[i].datetime.v # items[j].datetime.v

\* the item of the sample at i is the source item x, whatever was added
SameItem(s, x) == s.id = x.id /\ s.datetime = x.datetime

InSample(x) == \E i \in 1..Len(ret.sample) : SameItem(ret.sample[i], x)

\* C12: for a list of n >= 1 items with distinct numeric timestamps
\* pull_finnhub_news returns count = n and a sample of exactly min(n, 20)
\* items: the min(n, 20) items with the greatest timestamps, in strictly
\* descending order of timestamp.
C12_CountAndTopTwenty ==
    (NewsListed /\ DistinctNumeric(NewsSource)) =>
        LET n == Len(NewsSource)
            m == IF n < NewsTop THEN n ELSE NewsTop
        IN  /\ ret.k = "dict"
            /\ ret.count = n
            /\ Len(ret.sample) = m
            /\ \A i \in 1..(m - 1) :
                  ret.sample[i].datetime.v > ret.sample[i + 1].datetime.v
            /\ \A i \in 1..m :
                  \E j \in 1..n : SameItem(ret.sample[i], NewsSource[j])
            /\ \A j \in 1..n :
                  ~InSample(NewsSource[j]) =>
                     \A i \in 1..m :
                        NewsSource[j].datetime.v < ret.sample[i].datetime.v

\* more than 20 items with distinct numeric timestamps: 20 are kept, all
\* are counted
C12_Witness ==
    /\ NewsListed
    /\ DistinctNumeric(NewsSource)
    /\ Len(NewsSource) > NewsTop
    /\ ret.k = "dict"
    /\ ret.count = Len(NewsSource)
    /\ Len(ret.sample) = NewsTop

\* a timestamp that is there and is not a number
OddTs(x) == x.datetime.k \in {"str", "null"}

\* C13: when some item of the list has a non-numeric timestamp, alongside
\* any number of items with numeric timestamps, pull_finnhub_news still
\* returns a digest, and (the list being no longer than the cut) the item is
\* in the sample as it was, without datetime_iso.
C13_OddTimestampRetained ==
    (/\ NewsListed
     /\ \E i \in 1..Len(NewsSource) : OddTs(NewsSource[i])
     /\ \A i \in 1..Len(NewsSource) :
           OddTs(NewsSource[i]) \/ NumericTs(NewsSource[i])) =>
        /\ ret.k = "dict"
        /\ ret.count = Len(NewsSource)
        /\ Len(NewsSource) <= NewsTop =>
              \A j \in 1..Len(NewsSource) :
                 OddTs(NewsSource[j]) =>
                    \E i \in 1..Len(ret.sample) : ret.sample[i] = NewsSource[j]

\* C17: in a returned sample an item carries datetime_iso exactly when its
\* source item has a numeric datetime; an item without a datetime field is
\* retained unchanged.
C17_IsoIffNumericTimestamp ==
    (NewsListed /\ ret.k = "dict") =>
        \A i \in 1..Len(ret.sample) :
           \E j \in 1..Len(NewsSource) :
              /\ SameItem(ret.sample[i], NewsSource[j])
              /\ ("datetime_iso" \in DOMAIN ret.sample[i])
                    <=> NumericTs(NewsSource[j])
              /\ NewsSource[j].datetime.k = "missing" =>
                    ret.sample[i] = NewsSource[j]

(***************************************************************************)
(* resolver.py: resolve_ticker_to_cik                                      *)
(*                                                                         *)
(* A ticker is the sequence of its characters.  The registry is the        *)
(* sequence of the values of the parsed dict, in its order; an entry holds *)
(* ticker, cik_str and title, each of which may be absent.                 *)
(***************************************************************************)
Lower == <<"a", "l", "p", "m", "s", "f", "t", "z">>

Upper == <<"A", "L", "P", "M", "S", "F", "T", "Z">>

\* str.upper(), character by character
UpperChar(c) ==
    IF \E i \in 1..Len(Lower) : Lower[i] = c
    THEN Upper[CHOOSE i \in 1..Len(Lower) : Lower[i] = c]
    ELSE c

upper(str) == [i \in 1..Len(str) |-> UpperChar(str[i])]

\* str(n) of an int n >= 0: its decimal digits
RECURSIVE Digits(_)
Digits(n) == IF n < 10 THEN <<n>> ELSE Digits(n \div 10) \o <<n % 10>>

\* the width of the identifier
CikWidth == 10

\* faulty variant: the zeros go behind the digits (ljust)
zfill_behind(digits, width) ==
    IF Len(digits) >= width THEN digits
    ELSE digits \o [i \in 1..(width - Len(digits)) |-> 0]

\* str.zfill(width): zeros in front, up to the width
zfill(digits, width) ==
    IF Len(digits) >= width THEN digits
    ELSE [i \in 1..(width - Len(digits)) |-> 0] \o digits

RegistryEntry(ticker, cik_str, title) ==
    [ticker |-> ticker, cik_str |-> cik_str, title |-> title]

\* faulty variant: the comparison with the requested ticker is lost, the
\* first entry is the match
Scan_first_entry(entries, ticker) ==
    IF entries = <<>> THEN None
    ELSE LET entry == Head(entries)
         IN  IF entry.ticker.k # "str" \/ entry.cik_str.k # "int"
             THEN Raise("KeyError")
             ELSE [k |-> "dict",
                   ticker |-> upper(ticker),
                   cik |-> zfill(Digits(entry.cik_str.v), CikWidth),
                   title |-> IF entry.title.k = "str" THEN entry.title.s
                             ELSE "Unknown"]

\* entry['ticker'] of the entries up to and including the first match, and
\* entry['cik_str'] of the match, raise KeyError when the field is absent
RECURSIVE Scan(_, _)
Scan(entries, ticker) ==
    IF entries = <<>> THEN None
    ELSE LET entry == Head(entries)
         IN  IF entry.ticker.k # "str" THEN Raise("KeyError")
             ELSE IF upper(entry.ticker.s) = upper(ticker)
             THEN IF entry.cik_str.k # "int" THEN Raise("KeyError")
                  ELSE [k |-> "dict",
                        ticker |-> upper(ticker),
                        cik |-> zfill(Digits(entry.cik_str.v), CikWidth),
                        title |-> IF entry.title.k = "str" THEN entry.title.s
                                  ELSE "Unknown"]
             ELSE Scan(Tail(entries), ticker)

\* every exception is caught and answered with None; a scan that ends
\* without a match falls off the function, which is None too
resolve_ticker_to_cik(ticker, resp) ==
    LET data == fetch_json(resp)
    IN  IF data.k # "registry" THEN None
        ELSE LET found == Scan(data.entries, ticker)
             IN  IF IsRaise(found) THEN None ELSE found

(***************************************************************************)
(* Specification SpecResolver: one call of resolve_ticker_to_cik           *)
(***************************************************************************)
Registry(entries) == [k |-> "registry", entries |-> entries]

\* the registry has at most MaxRegistry entries
MaxRegistry == 3

ResolverTickers ==
    {<<"a", "a", "p", "l">>, <<"A", "a", "P", "l">>, <<"M", "S", "F", "T">>,
     <<"Z", "Z", "Z">>}

\* entries of the registry: two spellings of one ticker with different
\* identifiers, another ticker, an entry without cik_str, one without ticker
ResolverPool ==
    {RegistryEntry(JStr(<<"A", "A", "P", "L">>), JInt(320193), JStr("Apple Inc.")),
     RegistryEntry(JStr(<<"a", "a", "p", "l">>), JInt(1234567890), JMissing),
     RegistryEntry(JStr(<<"M", "S", "F", "T">>), JInt(789019), JStr("MICROSOFT CORP")),
     RegistryEntry(JStr(<<"m", "s", "f", "t">>), JInt(0), JStr("Zero")),
     RegistryEntry(JStr(<<"A", "A", "P", "L">>), JMissing, JStr("Apple Inc.")),
     RegistryEntry(JMissing, JInt(7), JStr("No ticker"))}

ResolverReturns(ticker, resp) ==
    /\ arg' = [ticker |-> ticker, resp |-> resp]
    /\ ret' = resolve_ticker_to_cik(ticker, resp)
    /\ pc' = "resolve_ticker_to_cik"
    /\ UNCHANGED <<frame, calls>>

\* requests.get, raise_for_status or r.json() raises, or the body is no dict
CallResolverFetchFails ==
    /\ pc = "idle"
    /\ \E ticker \in ResolverTickers :
          \E resp \in FetchFailures \cup {Ok([k |-> "other"])} :
             ResolverReturns(ticker, resp)

\* the registry is fetched: 0..MaxRegistry entries
CallResolver ==
    /\ pc = "idle"
    /\ \E ticker \in ResolverTickers :
          \E n \in 0..MaxRegistry :
             \E entries \in [1..n -> ResolverPool] :
                ResolverReturns(ticker, Ok(Registry(entries)))

NextResolver == CallResolverFetchFails \/ CallResolver

SpecResolver == InitIdle /\ [][NextResolver]_vars

(***************************************************************************)
(* Claims about resolve_ticker_to_cik, checked under SpecResolver          *)
(***************************************************************************)
Resolved == pc = "resolve_ticker_to_cik"

RegistryFetched == arg.resp.k = "ok" /\ arg.resp.body.k = "registry"

RegistryEntries == arg.resp.body.entries

\* two characters that are the same letter
SameLetter(c, d) ==
    \/ c = d
    \/ \E i \in 1..Len(Lower) : {c, d} = {Lower[i], Upper[i]}

EqualIgnoringCase(a, b) ==
    Len(a) = Len(b) /\ \A i \in 1..Len(a) : SameLetter(a[i], b[i])

Matches(entry, ticker) ==
    entry.ticker.k = "str" /\ EqualIgnoringCase(entry.ticker.s, ticker)

\* the position of the first entry that matches, 0 when none does
FirstMatch(entries, ticker) ==
    IF \E i \in 1..Len(entries) : Matches(entries[i], ticker)
    THEN CHOOSE i \in 1..Len(entries) :
            /\ Matches(entries[i], ticker)
            /\ \A j \in 1..(i - 1) : ~Matches(entries[j], ticker)
    ELSE 0

RECURSIVE Pow10(_)
Pow10(e) == IF e = 0 THEN 1 ELSE 10 * Pow10(e - 1)

\* the digits ds write the number v, zeros in front included
WritesNumber(ds, v) ==
    \A i \in 1..Len(ds) : ds[i] = (v \div Pow10(Len(ds) - i)) % 10

AllUpper(str) == \A i \in 1..Len(str) : \A j \in 1..Len(Lower) : str[i] # Lower[j]

\* ret is the entry, as the resolver renders it
Renders(entry, ticker) ==
    /\ ret.k = "dict"
    /\ EqualIgnoringCase(ret.ticker, ticker) /\ AllUpper(ret.ticker)
    /\ entry.cik_str.k = "int"
    /\ Len(ret.cik) = CikWidth
    /\ WritesNumber(ret.cik, entry.cik_str.v)
    /\ ret.title = IF entry.title.k = "str" THEN entry.title.s ELSE "Unknown"

\* C15: for a registry fetched successfully resolve_ticker_to_cik returns
\* the first entry whose ticker equals the requested one ignoring case,
\* with the ticker uppercased and the identifier as a string of exactly 10
\* characters left-padded with zeros; it returns absent if and only if no
\* entry matches or the fetch or the parse fails.
C15_FirstMatchOrAbsent ==
    Resolved =>
        IF ~RegistryFetched THEN ret = None
        ELSE LET f == FirstMatch(RegistryEntries, arg.ticker)
             IN  IF f = 0 THEN ret = None
                 ELSE Renders(RegistryEntries[f], arg.ticker)

\* an entry that cannot be read stops the scan: one without ticker at or
\* before position f (every position when f = 0), or the match at f without
\* cik_str
ScanStopped(entries, f) ==
    \/ \E i \in 1..(IF f = 0 THEN Len(entries) ELSE f) :
          entries[i].ticker.k # "str"
    \/ f # 0 /\ entries[f].cik_str.k # "int"

\* C15, amended: as C15 when every entry up to the first match has a
\* ticker and the match has a cik_str; absent also when the scan is stopped
\* by an entry that cannot be read, even if a later or that entry matches.
C15_FirstMatchUnlessScanStopped ==
    Resolved =>
        IF ~RegistryFetched THEN ret = None
        ELSE LET f == FirstMatch(RegistryEntries, arg.ticker)
             IN  IF f = 0 \/ ScanStopped(RegistryEntries, f) THEN ret = None
                 ELSE Renders(RegistryEntries[f], arg.ticker)

\* two entries match, in different spellings; the first is returned, its
\* identifier padded
C15_Witness ==
    /\ Resolved /\ RegistryFetched
    /\ LET f == FirstMatch(RegistryEntries, arg.ticker)
       IN  /\ f # 0
           /\ \E j \in (f + 1)..Len(RegistryEntries) :
                 /\ Matches(RegistryEntries[j], arg.ticker)
                 /\ RegistryEntries[j].cik_str # RegistryEntries[f].cik_str
           /\ RegistryEntries[f].ticker.s # arg.ticker
           /\ Renders(RegistryEntries[f], arg.ticker)
           /\ ret.cik[1] = 0

(***************************************************************************)
(* collect_raw_data.py: collect_raw_data, statement by statement           *)
(*                                                                         *)
(* arg is the ticker, frame the locals and FINNHUB_API_KEY, calls the      *)
(* component calls made so far with their arguments and results; pc is the *)
(* line about to run, "returned" or "raised".                              *)
(***************************************************************************)
HubTickers ==
    {<<"a", "a", "p", "l">>, <<"M", "S", "F", "T">>, <<"Z", "Z", "Z">>}

Apple == RegistryEntry(JStr(<<"A", "A", "P", "L">>), JInt(320193), JStr("Apple Inc."))

Microsoft == RegistryEntry(JStr(<<"M", "S", "F", "T">>), JInt(789019), JMissing)

Untitled == RegistryEntry(JMissing, JInt(1), JMissing)

\* what the symbol registry answers: a failure, a body that is no dict, a
\* registry, a registry with an entry without ticker between the two
RegistryResponses ==
    FetchFailures \cup
    {Ok([k |-> "other"]), Ok(Registry(<<Apple, Microsoft>>)),
     Ok(Registry(<<Apple, Untitled, Microsoft>>))}

HubSecResponses ==
    {[k |-> "network_error"], Ok([k |-> "empty"]),
     Ok(FactsDoc([t \in {"Revenues", "GrossProfit"} |-> TagData(1, 1)])),
     Ok(FactsDoc([t \in {"StockholdersEquity"} |-> TagData(1, 2)]))}

HubHistories ==
    {Raise("ConnectionError"), History(0, {}, 1), History(3, {}, 1),
     History(2, {1, 2}, 1), History(21, {2}, 2)}

HubNewsResponses ==
    {[k |-> "http_error"],
     Ok([k |-> "error_dict", error |-> "API limit reached"]),
     Ok([k |-> "dict_other"]),
     Ok([k |-> "list", items |-> <<>>]),
     Ok([k |-> "list", items |-> <<NewsItem(1, JInt(5)), NewsItem(2, JInt(9))>>]),
     Ok([k |-> "list", items |-> <<NewsItem(1, JInt(5)), NewsItem(2, JStr("n/a"))>>])}

Init ==
    /\ pc = "line27"
    /\ arg \in HubTickers
    /\ ret = None
    /\ \E key \in {"", "token"} :
          frame = [api_key |-> key, resolved |-> None, cik |-> None,
                   sec |-> None, prices |-> None, news |-> None]
    /\ calls = <<>>

Call(fn, with, result) == [fn |-> fn, with |-> with, result |-> result]

\* resolved = resolve_ticker_to_cik(ticker)
HubResolve ==
    /\ pc = "line27"
    /\ \E resp \in RegistryResponses :
          LET r == resolve_ticker_to_cik(arg, resp)
          IN  /\ frame' = [frame EXCEPT !.resolved = r]
              /\ calls' = Append(calls, Call("resolve_ticker_to_cik", arg, r))
    /\ pc' = "line28"
    /\ UNCHANGED <<arg, ret>>

\* cik = resolved["cik"]: None is not subscriptable
HubReadCik ==
    /\ pc = "line28"
    /\ IF frame.resolved.k = "none"
       THEN /\ pc' = "raised"
            /\ ret' = Raise("TypeError")
            /\ UNCHANGED frame
       ELSE /\ pc' = "line29"
            /\ frame' = [frame EXCEPT !.cik = frame.resolved.cik]
            /\ UNCHANGED ret
    /\ UNCHANGED <<arg, calls>>

\* sec = pull_sec_financials(cik)
HubSec ==
    /\ pc = "line29"
    /\ \E resp \in HubSecResponses :
          LET r == pull_sec_financials(resp)
          IN  /\ frame' = [frame EXCEPT !.sec = r]
              /\ calls' = Append(calls, Call("pull_sec_financials", frame.cik, r))
    /\ pc' = "line30"
    /\ UNCHANGED <<arg, ret>>

\* prices = pull_price_trend_yf(ticker)
HubPrices ==
    /\ pc = "line30"
    /\ \E hist \in HubHistories :
          LET r == pull_price_trend_yf(hist)
          IN  /\ frame' = [frame EXCEPT !.prices = r]
              /\ calls' = Append(calls, Call("pull_price_trend_yf", arg, r))
    /\ pc' = "line31"
    /\ UNCHANGED <<arg, ret>>

\* news = pull_finnhub_news(ticker): what it raises leaves collect_raw_data
HubNews ==
    /\ pc = "line31"
    /\ \E resp \in HubNewsResponses :
          LET r == pull_finnhub_news(frame.api_key, resp)
          IN  /\ calls' = Append(calls, Call("pull_finnhub_news", arg, r))
              /\ IF IsRaise(r)
                 THEN pc' = "raised" /\ ret' = r /\ UNCHANGED frame
                 ELSE /\ pc' = "line32"
                      /\ frame' = [frame EXCEPT !.news = r]
                      /\ UNCHANGED ret
    /\ UNCHANGED arg

\* return {"meta": resolved, "sec": sec, "prices": prices, "news": news}
HubReturn ==
    /\ pc = "line32"
    /\ ret' = [k |-> "bundle", meta |-> frame.resolved, sec |-> frame.sec,
               prices |-> frame.prices, news |-> frame.news]
    /\ pc' = "returned"
    /\ UNCHANGED <<arg, frame, calls>>

Next ==
    \/ HubResolve
    \/ HubReadCik
    \/ HubSec
    \/ HubPrices
    \/ HubNews
    \/ HubReturn

Spec == Init /\ [][Next]_vars

HubEnded == pc \in {"returned", "raised"}

Called(fn) == {i \in 1..Len(calls) : calls[i].fn = fn}

(***************************************************************************)
(* collect_raw_data.py: persist_raw_json and load_raw_json                 *)
(*                                                                         *)
(* The text json.dump writes is the tree of its JSON values.  A dict is    *)
(* written as an object and read back as a dict, a number, a string and    *)
(* None as themselves; a list and a tuple are both written as an array,    *)
(* and an array is read back as a list.                                    *)
(***************************************************************************)
JArray(items) == [k |-> "array", items |-> items]

\* a Python list of scalars, as json.load builds it from an array
PyList(items) == [k |-> "list", items |-> items]

\* prices: sample is a list of (date, close) tuples
json_dump_prices(p) ==
    IF p.k = "dict"
    THEN [p EXCEPT !.sample =
            JArray([i \in 1..Len(p.sample) |->
                      JArray(<<p.sample[i].date, p.sample[i].close>>)])]
    ELSE p

\* news: sample is a list of dicts
json_dump_news(nw) ==
    IF nw.k = "dict" THEN [nw EXCEPT !.sample = JArray(nw.sample)] ELSE nw

\* json.dump(data, f, indent=2)
json_dump(data) ==
    [k |-> "object", meta |-> data.meta, sec |-> data.sec,
     prices |-> json_dump_prices(data.prices),
     news |-> json_dump_news(data.news)]

json_load_prices(p) ==
    IF p.k = "dict"
    THEN [p EXCEPT !.sample =
            [i \in 1..Len(p.sample.items) |-> PyList(p.sample.items[i].items)]]
    ELSE p

json_load_news(nw) ==
    IF nw.k = "dict" THEN [nw EXCEPT !.sample = nw.sample.items] ELSE nw

\* json.load(f)
json_load(text) ==
    [k |-> "bundle", meta |-> text.meta, sec |-> text.sec,
     prices |-> json_load_prices(text.prices),
     news |-> json_load_news(text.news)]

\* time.strftime("%Y%m%d-%H%M%S") at the time of the call
Stamps == {"20240102-093000", "20240102-093001"}

\* str(Path(out_dir) / base), base being the file name given or
\* <ticker>_raw[_<stamp>].json
PathOf(ticker, out_dir, filename, with_timestamp, now) ==
    [out_dir |-> out_dir,
     base |-> IF filename # "" THEN filename
              ELSE [ticker |-> ticker,
                    stamp |-> IF with_timestamp THEN now ELSE ""]]

\* persist_raw_json(ticker, data, ...): writes the file, returns its path
persist_raw_json ==
    /\ pc = "returned"
    /\ \E filename \in {"", "run.json"}, with_timestamp \in BOOLEAN, now \in Stamps :
          LET path == PathOf(arg, "reports", filename, with_timestamp, now)
          IN  /\ frame' = [k |-> "fs", files |-> [f \in {path} |-> json_dump(ret)]]
              /\ ret' = path
              /\ calls' = Append(calls,
                    Call("persist_raw_json", [ticker |-> arg, data |-> ret], path))
    /\ pc' = "persisted"
    /\ UNCHANGED arg

\* load_raw_json(path), of the path persist_raw_json returned
load_raw_json ==
    /\ pc = "persisted"
    /\ LET data == json_load(frame.files[ret])
       IN  /\ ret' = data
           /\ calls' = Append(calls, Call("load_raw_json", ret, data))
    /\ pc' = "loaded"
    /\ UNCHANGED <<arg, frame>>

NextPersist == Next \/ persist_raw_json \/ load_raw_json

SpecPersist == Init /\ [][NextPersist]_vars

\* the bundle that was persisted
Persisted == calls[CHOOSE i \in Called("persist_raw_json") : TRUE].with.data

\* C14: reading back the file persist_raw_json wrote for a bundle of
\* collect_raw_data gives a value equal to that bundle, sample of (date,
\* close) pairs included.
C14_RoundTripEqual ==
    pc = "loaded" => ret = Persisted

(***************************************************************************)
(* Claims about collect_raw_data and its components, checked under Spec    *)
(***************************************************************************)
\* C1: whatever the four sub-fetches answer, collect_raw_data ends by
\* returning a record with exactly the keys meta, sec, prices and news; it
\* never ends in an exception.
C1_AlwaysFourKeyBundle ==
    HubEnded =>
        /\ pc = "returned"
        /\ DOMAIN ret = {"k", "meta", "sec", "prices", "news"}
        /\ ret.k = "bundle"

\* C2: when the resolution yields absent, the price analysis and the news
\* sampling are still both called with the raw ticker, and the sec slot of
\* the returned bundle is an empty FinancialFacts.
C2_AbsentResolutionContinues ==
    (HubEnded /\ frame.resolved.k = "none") =>
        /\ \E i \in Called("pull_price_trend_yf") : calls[i].with = arg
        /\ \E i \in Called("pull_finnhub_news") : calls[i].with = arg
        /\ pc = "returned"
        /\ ret.sec = EmptyDict

\* C3: each component returns a value and never raises, whatever its source
\* answers: the resolver a record or absent, the filing extractor a record
\* or the empty mapping, the price analyzer and the news sampler a record,
\* which carries an error field when the source failed.
C3_ComponentsNeverRaise ==
    \A i \in 1..Len(calls) :
        /\ ~IsRaise(calls[i].result)
        /\ calls[i].fn = "resolve_ticker_to_cik"
              => calls[i].result.k \in {"none", "dict"}
        /\ calls[i].fn = "pull_sec_financials"
              => calls[i].result.k \in {"empty", "dict"}
        /\ calls[i].fn \in {"pull_price_trend_yf", "pull_finnhub_news"}
              => calls[i].result.k \in {"error", "dict"}

\* the ticker is in no registry the symbol registry answers with
Unregistered(ticker) ==
    \A resp \in RegistryResponses :
        (resp.k = "ok" /\ resp.body.k = "registry") =>
            \A i \in 1..Len(resp.body.entries) :
                ~Matches(resp.body.entries[i], ticker)

\* C16: for a ticker that is not in the symbol registry the resolution
\* returns absent, and the run of collect_raw_data makes no call of
\* pull_sec_financials with a non-empty identifier: it makes no call of it
\* at all.
C16_UnregisteredNeverReachesSec ==
    Unregistered(arg) =>
        /\ \A i \in Called("resolve_ticker_to_cik") : calls[i].result = None
        /\ Called("pull_sec_financials") = {}

\* the run for an unregistered ticker has ended, after its resolution
C16_Witness ==
    /\ Unregistered(arg)
    /\ HubEnded
    /\ \E i \in Called("resolve_ticker_to_cik") :
          calls[i].with = arg /\ calls[i].result = None
    /\ Called("pull_sec_financials") = {}

====
